---- MODULE Spec2Model ----
(***************************************************************************)
(* Model of sync_script.py: the one-way synchronisation of a markdown      *)
(* progress document (milestones, daily logs) onto a Trello card           *)
(* (checklists, comments).                                                 *)
(*                                                                         *)
(* Text is modelled as a sequence of tokens.  A token is a tuple:          *)
(*   <<"nl">>            the newline character                             *)
(*   <<"sp">>            a blank                                           *)
(*   <<"w", x>>          a word of body text                               *)
(*   <<"q">>             a quote marker ("> ") in front of quoted text     *)
(*   <<"hr">>            the text "---"                                    *)
(*   <<"h3", x>>         the text "### x"; x in Dates is a YYYY-MM-DD date *)
(*   <<"task", c, x>>    the text "- [c] x", c being "x" or " "            *)
(*   <<"sec", s>>        one of the two fixed section heading lines        *)
(* Substring search, split and strip act on token sequences the way the    *)
(* Python string methods act on characters.                                *)
(***************************************************************************)
EXTENDS Integers, Sequences, FiniteSets, TLC

\* ------------------------------------------------------------------ bounds
MaxLines == 4
MaxLogs == 2
MaxMilestones == 2
MaxTasks == 2
MaxItems == 2
MaxChecklists == 1
MaxComments == 2
MaxEntries == 2
MaxFailures == 1

\* ------------------------------------------------------------ text helpers
NL == <<"nl">>
SP == <<"sp">>
HR == <<"hr">>
Q == <<"q">>
W(x) == <<"w", x>>
H3(x) == <<"h3", x>>
Task(c, x) == <<"task", c, x>>
SecMilestones == <<"sec", "milestones">>
SecDailyLogs == <<"sec", "daily_logs">>

Dates == {"D1", "D2", "D3"}
\* YYYY-MM-DD strings compare as the dates do; the rank is that order.
DateRank == [d \in Dates |-> IF d = "D1" THEN 1 ELSE IF d = "D2" THEN 2 ELSE 3]

IsSpace(t) == t \in {NL, SP}

\* str.strip(): drop the leading and the trailing whitespace.
RECURSIVE LStrip(_)
LStrip(s) == IF s # <<>> /\ IsSpace(Head(s)) THEN LStrip(Tail(s)) ELSE s

RECURSIVE RStrip(_)
RStrip(s) ==
    IF s # <<>> /\ IsSpace(s[Len(s)]) THEN RStrip(SubSeq(s, 1, Len(s) - 1)) ELSE s

Strip(s) == RStrip(LStrip(s))

\* The first index at which sep occurs in s as a substring, 0 when none.
FindSub(s, sep) ==
    LET hits == {i \in 1..(Len(s) - Len(sep) + 1) : SubSeq(s, i, i + Len(sep) - 1) = sep}
    IN IF hits = {} THEN 0 ELSE CHOOSE i \in hits : \A j \in hits : i <= j

\* str.split(sep): the pieces of s between the occurrences of sep.
RECURSIVE SplitOn(_, _)
SplitOn(s, sep) ==
    LET i == FindSub(s, sep)
    IN IF i = 0 THEN <<s>>
       ELSE <<SubSeq(s, 1, i - 1)>> \o SplitOn(SubSeq(s, i + Len(sep), Len(s)), sep)

\* "\n".join(lines)
RECURSIVE JoinLines(_)
JoinLines(ls) ==
    IF ls = <<>> THEN <<>>
    ELSE IF Len(ls) = 1 THEN ls[1]
    ELSE ls[1] \o <<NL>> \o JoinLines(Tail(ls))

\* re.match(r"###\s*(\d{4}-\d{2}-\d{2})", line): the line starts with a dated heading.
DateMatch(line) == line # <<>> /\ Head(line)[1] = "h3" /\ Head(line)[2] \in Dates

\* re.match(r"###\s*(.+)", line): the line starts with a level-3 heading.
MilestoneMatch(line) == line # <<>> /\ Head(line)[1] = "h3"

\* re.match(r"-\s*\[(x| )\]\s*(.+)", line): the line is a checkbox item.
TaskMatch(line) == line # <<>> /\ Head(line)[1] = "task"

\* re.search(r"###\s*(\d{4}-\d{2}-\d{2})", text): the date of the first dated
\* heading anywhere in the text, "" when there is none.
SearchDate(text) ==
    LET hits == {i \in 1..Len(text) : text[i][1] = "h3" /\ text[i][2] \in Dates}
    IN IF hits = {} THEN ""
       ELSE text[CHOOSE i \in hits : \A j \in hits : i <= j][2]

\* ---------------------------------------------------------- dict helpers
\* A Python dict is a sequence of entries in insertion order, keys unique.
HasKey(d, k) == \E i \in 1..Len(d) : d[i].key = k
Get(d, k) == d[CHOOSE i \in 1..Len(d) : d[i].key = k].val
\* d[k] = v: an existing key keeps its place and takes the new value.
Put(d, k, v) ==
    IF HasKey(d, k)
    THEN [i \in 1..Len(d) |-> IF d[i].key = k THEN [key |-> k, val |-> v] ELSE d[i]]
    ELSE Append(d, [key |-> k, val |-> v])
Keys(d) == {d[i].key : i \in 1..Len(d)}

\* ------------------------------------------------------------ parse_markdown
\* One pass of the line loop of parse_markdown.  st holds data["milestones"],
\* data["daily_logs"], current_section and current_milestone ("" for None).
ParseLine(st, line, content) ==
    LET stripped_line == Strip(line) IN
    IF stripped_line = <<SecMilestones>> THEN [st EXCEPT !.section = "milestones"]
    ELSE IF stripped_line = <<SecDailyLogs>> THEN [st EXCEPT !.section = "daily_logs"]
    ELSE IF st.section = "milestones" THEN
        IF MilestoneMatch(stripped_line) THEN
            LET name == Head(stripped_line)[2] IN
            [st EXCEPT !.milestone = name, !.milestones = Put(st.milestones, name, <<>>)]
        ELSE IF TaskMatch(stripped_line) /\ st.milestone # "" THEN
            LET task == [name |-> Head(stripped_line)[3],
                         checked |-> (Head(stripped_line)[2] = "x")]
            IN [st EXCEPT !.milestones =
                   Put(st.milestones, st.milestone,
                       Append(Get(st.milestones, st.milestone), task))]
        ELSE st
    ELSE IF st.section = "daily_logs" THEN
        IF DateMatch(stripped_line) THEN
            LET date_str == Head(stripped_line)[2]
                full_log_block ==
                    Strip(SplitOn(SplitOn(content, stripped_line)[2], <<HR>>)[1])
            IN [st EXCEPT !.daily_logs =
                   Put(st.daily_logs, date_str, <<H3(date_str), NL>> \o full_log_block)]
        ELSE st
    ELSE st

RECURSIVE ParseLines(_, _, _)
ParseLines(st, lines, content) ==
    IF lines = <<>> THEN st
    ELSE ParseLines(ParseLine(st, Head(lines), content), Tail(lines), content)

\* parse_markdown(content): milestones is a dict name -> list of tasks,
\* daily_logs a dict date -> text.
ParseMarkdown(content) ==
    LET st == ParseLines([milestones |-> <<>>, daily_logs |-> <<>>,
                          section |-> "", milestone |-> ""],
                         SplitOn(content, <<NL>>), content)
    IN [milestones |-> st.milestones, daily_logs |-> st.daily_logs]

NoData == [milestones |-> <<>>, daily_logs |-> <<>>]

\* ------------------------------------------------------------------- state
VARIABLES
    pc,                  \* where the program is
    content,             \* the markdown text of the entry being processed
    data,                \* parse_markdown's result for it
    checklists,          \* the card's checklists on the board
    comments,            \* the card's comments on the board
    card_data,           \* get_trello_card_data's snapshot of the card
    calls,               \* every write request issued, in order
    existing_checklists, \* sync_milestones: dict name -> checklist
    mi,                  \* sync_milestones: index of the milestone in the loop
    checklist,           \* sync_milestones: the milestone's checklist
    existing_items,      \* sync_milestones: dict name -> item
    ti,                  \* sync_milestones: index of the task in the loop
    di,                  \* sync_milestones: index in the deletion loop
    posted_logs,         \* sync_daily_log: dict date -> comment
    sorted_logs,         \* sync_daily_log: the logs in processing order
    li,                  \* sync_daily_log: index in the loop
    config,              \* main: the configured entries
    ei,                  \* main: index of the entry in the loop
    outcome,             \* main: what happened to each entry
    state,               \* main: the run state (card ids)
    nextId,              \* the board's next fresh id
    failures,            \* how many requests have failed so far
    run                  \* which pass over the same card (1 or 2)

docVars == <<content, data>>
boardVars == <<checklists, comments, card_data, nextId>>
msVars == <<existing_checklists, mi, checklist, existing_items, ti, di>>
logVars == <<posted_logs, sorted_logs, li>>
mainVars == <<config, ei, outcome, state>>
vars == <<pc, content, data, checklists, comments, card_data, calls,
          existing_checklists, mi, checklist, existing_items, ti, di,
          posted_logs, sorted_logs, li, config, ei, outcome, state,
          nextId, failures, run>>

NoChecklist == [id |-> 0, name |-> "", checkItems |-> <<>>]

\* --------------------------------------------------------------- the board
\* What the Trello requests of the script do to the card when they succeed.
StateStr(checked) == IF checked THEN "complete" ELSE "incomplete"

\* POST /checklists {idCard, name}: a new, empty checklist on the card.
BoardCreateChecklist(cls, id, name) ==
    Append(cls, [id |-> id, name |-> name, checkItems |-> <<>>])

\* POST /checklists/{cl}/checkItems {name, checked}: a new item at its end.
BoardCreateItem(cls, cl, id, name, checked) ==
    [k \in 1..Len(cls) |->
        IF cls[k].id = cl
        THEN [cls[k] EXCEPT !.checkItems =
                 Append(@, [id |-> id, name |-> name, state |-> StateStr(checked)])]
        ELSE cls[k]]

\* PUT /cards/{card}/checkItem/{id} {state}: the item of that id takes the state.
BoardUpdateItem(cls, id, st) ==
    [k \in 1..Len(cls) |->
        [cls[k] EXCEPT !.checkItems =
            [j \in 1..Len(@) |-> IF @[j].id = id THEN [@[j] EXCEPT !.state = st] ELSE @[j]]]]

\* DELETE /checklists/{cl}/checkItems/{id}: the item leaves the checklist.
BoardDeleteItem(cls, cl, id) ==
    [k \in 1..Len(cls) |->
        IF cls[k].id = cl
        THEN [cls[k] EXCEPT !.checkItems = SelectSeq(@, LAMBDA it : it.id # id)]
        ELSE cls[k]]

\* POST /cards/{card}/actions/comments {text}: a new comment; the card lists
\* its comment actions newest first.
BoardCreateComment(cms, id, text) == <<[id |-> id, text |-> text]>> \o cms

\* PUT /actions/{id} {text}: the comment of that id takes the text.
BoardUpdateComment(cms, id, text) ==
    [k \in 1..Len(cms) |-> IF cms[k].id = id THEN [cms[k] EXCEPT !.text = text] ELSE cms[k]]

\* One write request, as logged: which entry and pass issued it, for which
\* milestone, what it asked for, and whether it succeeded.
Call(op, ms, cl, id, name, st, text, ok) ==
    [e |-> ei, run |-> run, op |-> op, ms |-> ms, cl |-> cl, id |-> id, name |-> name,
     state |-> st, text |-> text, ok |-> ok]

\* A request may fail; the number of failures in one behaviour is bounded.
MayBe(ok) == ok \/ failures < MaxFailures
Failed(ok) == IF ok THEN failures ELSE failures + 1

\* ---------------------------------------------------------- sync_milestones
\* {x['name']: x for x in xs}
RECURSIVE DictByName(_)
DictByName(xs) ==
    IF xs = <<>> THEN <<>>
    ELSE Put(DictByName(SubSeq(xs, 1, Len(xs) - 1)), xs[Len(xs)].name, xs[Len(xs)])

\* github_task_names_by_milestone.get(milestone_name, set())
GithubTaskNames(milestones, milestone_name) ==
    IF HasKey(milestones, milestone_name)
    THEN {Get(milestones, milestone_name)[k].name :
             k \in 1..Len(Get(milestones, milestone_name))}
    ELSE {}

\* A lookup that takes the card's first checklist whatever its name.
ResolveChecklistAnyName(existing, milestone_name) ==
    IF existing # <<>> THEN existing[1].val ELSE NoChecklist

\* The checklist found on the card for a milestone, by exact name; NoChecklist
\* (None) when the card has none of that name.
ResolveChecklist(existing, milestone_name) ==
    IF HasKey(existing, milestone_name) THEN Get(existing, milestone_name)
    ELSE NoChecklist

\* What the create/update loop asks of the board for one task.
TaskAction(items, task) ==
    IF ~HasKey(items, task.name) THEN "create"
    ELSE IF Get(items, task.name).state # StateStr(task.checked) THEN "update"
    ELSE "none"

\* The deletion loop's test for one existing item.
DeleteNeeded(item_name, github_task_names) == item_name \notin github_task_names

\* A loop that a failed request ends.
AfterTaskBreak(i, ok, n) == IF ok THEN i + 1 ELSE n + 1

\* The try/except around one task's request: the loop goes on to the next
\* task whether or not the request succeeded.
AfterTask(i, ok, n) == i + 1

\* The except/continue after a failed checklist creation: next milestone.
AfterChecklistFailure(i, n) == i + 1

CardId == config[ei].card
CurMilestone == data.milestones[mi]

MsBegin ==
    /\ pc = "ms_start"
    /\ state' = state \cup {CardId}
    /\ existing_checklists' = DictByName(card_data.checklists)
    /\ mi' = 1
    /\ pc' = "ms_loop"
    /\ UNCHANGED <<docVars, boardVars, comments, calls, checklist, existing_items,
                   ti, di, logVars, config, ei, outcome, failures, run>>

MsFound ==
    /\ pc = "ms_loop"
    /\ mi <= Len(data.milestones)
    /\ ResolveChecklist(existing_checklists, CurMilestone.key) # NoChecklist
    /\ checklist' = ResolveChecklist(existing_checklists, CurMilestone.key)
    /\ existing_items' = DictByName(checklist'.checkItems)
    /\ ti' = 1
    /\ pc' = "ms_tasks"
    /\ UNCHANGED <<docVars, boardVars, comments, calls, existing_checklists, mi, di,
                   logVars, mainVars, failures, run>>

MsCreateChecklist(ok) ==
    /\ pc = "ms_loop"
    /\ mi <= Len(data.milestones)
    /\ ResolveChecklist(existing_checklists, CurMilestone.key) = NoChecklist
    /\ MayBe(ok)
    /\ calls' = Append(calls, Call("create_checklist", CurMilestone.key, nextId, 0, CurMilestone.key,
                                   "", <<>>, ok))
    /\ failures' = Failed(ok)
    /\ IF ok
       THEN /\ checklists' = BoardCreateChecklist(checklists, nextId, CurMilestone.key)
            /\ nextId' = nextId + 1
            /\ checklist' = [id |-> nextId, name |-> CurMilestone.key, checkItems |-> <<>>]
            /\ existing_checklists' =
                   Put(existing_checklists, CurMilestone.key, checklist')
            /\ existing_items' = <<>>
            /\ ti' = 1
            /\ pc' = "ms_tasks"
            /\ UNCHANGED mi
       ELSE /\ mi' = AfterChecklistFailure(mi, Len(data.milestones))
            /\ UNCHANGED <<checklists, nextId, checklist, existing_checklists,
                           existing_items, ti, pc>>
    /\ UNCHANGED <<docVars, comments, card_data, di, logVars, mainVars, run>>

MsTask(ok) ==
    /\ pc = "ms_tasks"
    /\ ti <= Len(CurMilestone.val)
    /\ LET task == CurMilestone.val[ti]
           act == TaskAction(existing_items, task)
       IN /\ IF act = "none" THEN ok ELSE MayBe(ok)
          /\ IF act = "create" THEN
                /\ calls' = Append(calls, Call("create_item", CurMilestone.key, checklist.id, nextId,
                                   task.name, StateStr(task.checked), <<>>, ok))
                /\ checklists' = IF ok
                                 THEN BoardCreateItem(checklists, checklist.id, nextId,
                                                      task.name, task.checked)
                                 ELSE checklists
                /\ nextId' = IF ok THEN nextId + 1 ELSE nextId
                /\ failures' = Failed(ok)
             ELSE IF act = "update" THEN
                /\ calls' = Append(calls, Call("update_item", CurMilestone.key, checklist.id,
                                   Get(existing_items, task.name).id, task.name,
                                   StateStr(task.checked), <<>>, ok))
                /\ checklists' = IF ok
                                 THEN BoardUpdateItem(checklists,
                                          Get(existing_items, task.name).id,
                                          StateStr(task.checked))
                                 ELSE checklists
                /\ failures' = Failed(ok)
                /\ UNCHANGED nextId
             ELSE UNCHANGED <<calls, checklists, nextId, failures>>
          /\ ti' = AfterTask(ti, ok, Len(CurMilestone.val))
    /\ UNCHANGED <<pc, docVars, comments, card_data, existing_checklists, mi, checklist,
                   existing_items, di, logVars, mainVars, run>>

MsTasksDone ==
    /\ pc = "ms_tasks"
    /\ ti > Len(CurMilestone.val)
    /\ di' = 1
    /\ pc' = "ms_delete"
    /\ UNCHANGED <<docVars, boardVars, comments, calls, existing_checklists, mi,
                   checklist, existing_items, ti, logVars, mainVars, failures, run>>

MsDelete(ok) ==
    /\ pc = "ms_delete"
    /\ di <= Len(existing_items)
    /\ LET item_name == existing_items[di].key
           item_data == existing_items[di].val
           gone == DeleteNeeded(item_name, GithubTaskNames(data.milestones, CurMilestone.key))
       IN /\ IF gone THEN MayBe(ok) ELSE ok
          /\ IF gone THEN
                /\ calls' = Append(calls, Call("delete_item", CurMilestone.key,
                                               checklist.id, item_data.id,
                                               item_name, "", <<>>, ok))
                /\ checklists' = IF ok
                                 THEN BoardDeleteItem(checklists, checklist.id, item_data.id)
                                 ELSE checklists
                /\ failures' = Failed(ok)
             ELSE UNCHANGED <<calls, checklists, failures>>
    /\ di' = di + 1
    /\ UNCHANGED <<pc, docVars, comments, card_data, nextId, existing_checklists, mi,
                   checklist, existing_items, ti, logVars, mainVars, run>>

MsDeleteDone ==
    /\ pc = "ms_delete"
    /\ di > Len(existing_items)
    /\ mi' = mi + 1
    /\ pc' = "ms_loop"
    /\ UNCHANGED <<docVars, boardVars, comments, calls, existing_checklists, checklist,
                   existing_items, ti, di, logVars, mainVars, failures, run>>

MsReturn ==
    /\ pc = "ms_loop"
    /\ mi > Len(data.milestones)
    /\ pc' = "log_start"
    /\ UNCHANGED <<docVars, boardVars, comments, calls, msVars, logVars, mainVars,
                   failures, run>>

\* ----------------------------------------------------------- sync_daily_log
\* The lookup built from the fetched comments: date -> {id, text}, the text
\* stripped; a comment with no dated heading is left out, and of several
\* comments with one date the last in the list stays.
RECURSIVE PostedLogs(_)
PostedLogs(existing_comments) ==
    IF existing_comments = <<>> THEN <<>>
    ELSE LET n == Len(existing_comments)
             rest == PostedLogs(SubSeq(existing_comments, 1, n - 1))
             text == Strip(existing_comments[n].text)
             date_str == SearchDate(text)
         IN IF date_str # ""
            THEN Put(rest, date_str, [id |-> existing_comments[n].id, text |-> text])
            ELSE rest

\* Insertion of one (date, text) pair into a list sorted by date.
RECURSIVE InsertSorted(_, _)
InsertSorted(sorted, x) ==
    IF sorted = <<>> THEN <<x>>
    ELSE IF DateRank[x.key] < DateRank[Head(sorted).key] THEN <<x>> \o sorted
    ELSE <<Head(sorted)>> \o InsertSorted(Tail(sorted), x)

RECURSIVE SortItems(_)
SortItems(d) ==
    IF d = <<>> THEN <<>>
    ELSE InsertSorted(SortItems(SubSeq(d, 1, Len(d) - 1)), d[Len(d)])

\* The logs taken in the order of the document.
DocumentOrder(daily_logs) == daily_logs

\* sorted(daily_logs_from_github.items())
SortedLogs(daily_logs) == SortItems(daily_logs)

\* A loop that never rewrites a comment it finds.
LogActionNeverUpdate(posted, date_str, text) ==
    IF HasKey(posted, date_str) THEN "skip" ELSE "create"

\* A loop that rewrites every comment it finds, changed or not.
LogActionAlwaysUpdate(posted, date_str, text) ==
    IF HasKey(posted, date_str) THEN "update" ELSE "create"

\* What the loop asks of the board for one date; text is the stripped log.
LogAction(posted, date_str, text) ==
    IF HasKey(posted, date_str)
    THEN IF text # Get(posted, date_str).text THEN "update" ELSE "skip"
    ELSE "create"

LogBegin ==
    /\ pc = "log_start"
    /\ posted_logs' = PostedLogs(card_data.actions)
    /\ sorted_logs' = SortedLogs(data.daily_logs)
    /\ li' = 1
    /\ pc' = "log_loop"
    /\ UNCHANGED <<docVars, boardVars, calls, msVars, mainVars, failures, run>>

LogStep(ok) ==
    /\ pc = "log_loop"
    /\ li <= Len(sorted_logs)
    /\ LET date_str == sorted_logs[li].key
           log_content_from_github == Strip(sorted_logs[li].val)
           act == LogAction(posted_logs, date_str, log_content_from_github)
       IN /\ IF act = "skip" THEN ok ELSE MayBe(ok)
          /\ IF act = "update" THEN
                /\ calls' = Append(calls, Call("update_comment", "", 0,
                                   Get(posted_logs, date_str).id, date_str, "",
                                   log_content_from_github, ok))
                /\ comments' = IF ok
                               THEN BoardUpdateComment(comments,
                                        Get(posted_logs, date_str).id,
                                        log_content_from_github)
                               ELSE comments
                /\ failures' = Failed(ok)
                /\ UNCHANGED nextId
             ELSE IF act = "create" THEN
                /\ calls' = Append(calls, Call("create_comment", "", 0, nextId, date_str, "",
                                               log_content_from_github, ok))
                /\ comments' = IF ok
                               THEN BoardCreateComment(comments, nextId,
                                                       log_content_from_github)
                               ELSE comments
                /\ nextId' = IF ok THEN nextId + 1 ELSE nextId
                /\ failures' = Failed(ok)
             ELSE UNCHANGED <<calls, comments, nextId, failures>>
    /\ li' = li + 1
    /\ UNCHANGED <<pc, docVars, checklists, card_data, msVars, posted_logs, sorted_logs,
                   mainVars, run>>

LogReturn ==
    /\ pc = "log_loop"
    /\ li > Len(sorted_logs)
    /\ pc' = "log_done"
    /\ UNCHANGED <<docVars, boardVars, calls, msVars, logVars, mainVars, failures, run>>

\* The card as get_trello_card_data returns it.
Snapshot(cls, cms) == [checklists |-> cls, actions |-> cms]

\* A second pass over the same entry: the card is fetched again and the daily
\* logs, unchanged, are reconciled against what the first pass left.
SecondPass ==
    /\ pc = "log_done"
    /\ run = 1
    /\ run' = 2
    /\ card_data' = Snapshot(checklists, comments)
    /\ pc' = "log_start"
    /\ UNCHANGED <<docVars, checklists, comments, nextId, calls, msVars, logVars,
                   mainVars, failures>>

\* --------------------------------------------------------------------- main
\* all([intern_name, branch_name, card_id, file_path])
ValidEntry(intern) ==
    intern.name # "" /\ intern.branch # "" /\ intern.card # "" /\ intern.path # ""

\* A failed fetch that ends the batch.
AfterFetchFailureAbort(i, n) == n + 1

\* The `continue` after a failed fetch: the loop goes on to the next entry.
AfterFetchFailure(i, n) == i + 1

SetOutcome(what) == outcome' = [outcome EXCEPT ![ei] = what]

MainSkipInvalid ==
    /\ pc = "main_loop"
    /\ ei <= Len(config)
    /\ ~ValidEntry(config[ei])
    /\ SetOutcome("invalid")
    /\ ei' = ei + 1
    /\ UNCHANGED <<pc, docVars, boardVars, calls, msVars, logVars, config, state,
                   failures, run>>

\* ------------------------------------------------------------------ inputs
SeqsUpTo(S, n) == UNION {[1..k -> S] : k \in 0..n}
SeqsFromTo(S, m, n) == UNION {[1..k -> S] : k \in m..n}

TaskNames == {"A", "B"}
Tasks == [name : TaskNames, checked : BOOLEAN]
Items == [name : TaskNames, state : {"complete", "incomplete"}]
MsNames == <<"M1", "M2", "M3">>
Bodies == {<<>>, <<W("a")>>, <<W("b")>>}

TaskLine(t) == <<Task(IF t.checked THEN "x" ELSE " ", t.name)>>

\* The lines of a milestones section: per milestone its heading, then one
\* checkbox line per task.
RECURSIVE MsLines(_, _)
MsLines(tls, i) ==
    IF i > Len(tls) THEN <<>>
    ELSE <<<<H3(MsNames[i])>>>> \o [k \in 1..Len(tls[i]) |-> TaskLine(tls[i][k])]
         \o MsLines(tls, i + 1)

MsDoc(tls) == JoinLines(<<<<SecMilestones>>>> \o MsLines(tls, 1))

\* The documents of 1..m milestones, each of at most t tasks.
MsDocs(m, t) == {MsDoc(tls) : tls \in SeqsFromTo(SeqsUpTo(Tasks, t), 1, m)}

\* The lines of a daily-logs section: per entry its dated heading, its body
\* (when it has one) and the "---" that closes it.
RECURSIVE LogLines(_)
LogLines(es) ==
    IF es = <<>> THEN <<>>
    ELSE <<<<H3(Head(es).date)>>>>
         \o (IF Head(es).body = <<>> THEN <<>> ELSE <<Head(es).body>>)
         \o <<<<HR>>>> \o LogLines(Tail(es))

LogDoc(es) == JoinLines(<<<<SecDailyLogs>>>> \o LogLines(es))

\* 1..n log entries of distinct dates, in any order.
LogEntries(n) ==
    {es \in SeqsFromTo([date : Dates, body : Bodies], 1, n) :
        \A i, j \in 1..Len(es) : i # j => es[i].date # es[j].date}

LogDocs(n) == {LogDoc(es) : es \in LogEntries(n)}

\* Documents for the parser alone: a daily-logs section of at most n lines.
ParseLineSet ==
    {<<H3("D1")>>, <<H3("D2")>>, <<W("a")>>, <<W("b")>>, <<HR>>,
     <<Q, H3("D1")>>, <<SP, H3("D1"), SP>>}

ParseDocs(n) ==
    {JoinLines(<<<<SecDailyLogs>>>> \o ls) : ls \in SeqsUpTo(ParseLineSet, n)}

\* Boards.  Ids are given by position so that they are distinct.
FirstFreeId == (MaxChecklists + 1) * (MaxItems + 1) + MaxComments + 1

WithChecklistIds(shape) ==
    [k \in 1..Len(shape) |->
        [id |-> k * (MaxItems + 1), name |-> shape[k].name,
         checkItems |-> [j \in 1..Len(shape[k].items) |->
                            [id |-> k * (MaxItems + 1) + j,
                             name |-> shape[k].items[j].name,
                             state |-> shape[k].items[j].state]]]]

\* The cards of at most c checklists, each of at most n items.
RemoteChecklists(c, n) ==
    {WithChecklistIds(shape) :
        shape \in SeqsUpTo([name : {"M1", "Old"}, items : SeqsUpTo(Items, n)], c)}

CommentTexts ==
    {<<H3("D1"), NL, W("a")>>, <<H3("D1"), NL, W("b")>>, <<H3("D1"), NL, W("a"), NL>>,
     <<H3("D2"), NL, W("a")>>, <<W("a")>>, <<W("a"), NL, H3("D1")>>}

WithCommentIds(texts) ==
    [k \in 1..Len(texts) |->
        [id |-> (MaxChecklists + 1) * (MaxItems + 1) + k, text |-> texts[k]]]

RemoteComments(n) == {WithCommentIds(texts) : texts \in SeqsUpTo(CommentTexts, n)}

CardNames == <<"c1", "c2", "c3">>
Entry(k, shape) ==
    [name |-> "n", branch |-> "b",
     card |-> IF shape = "no_card" THEN "" ELSE CardNames[k],
     path |-> IF shape = "no_path" THEN "" ELSE "p"]

Configs(n) ==
    {[k \in 1..Len(shapes) |-> Entry(k, shapes[k])] :
        shapes \in SeqsUpTo({"ok", "no_card", "no_path"}, n)}

MainDocs ==
    {JoinLines(<<<<SecMilestones>>, <<H3("M1")>>, TaskLine([name |-> "A", checked |-> TRUE]),
                 <<SecDailyLogs>>, <<H3("D1")>>, <<W("a")>>, <<HR>>>>),
     JoinLines(<<<<SecDailyLogs>>, <<H3("D2")>>, <<W("b")>>, <<HR>>, <<H3("D1")>>, <<HR>>>>)}

MainBoards ==
    {Snapshot(<<>>, <<>>),
     Snapshot(WithChecklistIds(<<[name |-> "M1",
                                  items |-> <<[name |-> "A", state |-> "incomplete"],
                                              [name |-> "B", state |-> "complete"]>>]>>),
              WithCommentIds(<<<<H3("D1"), NL, W("b")>>>>))}

\* --------------------------------------------------------- main, continued
MainFetchDoc(ok) ==
    /\ pc = "main_loop"
    /\ ei <= Len(config)
    /\ ValidEntry(config[ei])
    /\ IF ok
       THEN /\ \E c \in MainDocs : content' = c /\ data' = ParseMarkdown(c)
            /\ pc' = "fetch_card"
            /\ UNCHANGED <<ei, outcome>>
       ELSE /\ SetOutcome("doc_failed")
            /\ ei' = AfterFetchFailure(ei, Len(config))
            /\ UNCHANGED <<pc, docVars>>
    /\ UNCHANGED <<boardVars, calls, msVars, logVars, config, state, failures, run>>

MainFetchCard(ok) ==
    /\ pc = "fetch_card"
    /\ IF ok
       THEN /\ \E b \in MainBoards :
                 /\ checklists' = b.checklists
                 /\ comments' = b.actions
                 /\ card_data' = b
            /\ pc' = "ms_start"
            /\ UNCHANGED <<ei, outcome>>
       ELSE /\ SetOutcome("card_failed")
            /\ ei' = AfterFetchFailure(ei, Len(config))
            /\ pc' = "main_loop"
            /\ UNCHANGED <<checklists, comments, card_data>>
    /\ UNCHANGED <<docVars, nextId, calls, msVars, logVars, config, state, failures, run>>

MainNext ==
    /\ pc = "log_done"
    /\ SetOutcome("synced")
    /\ ei' = ei + 1
    /\ pc' = "main_loop"
    /\ UNCHANGED <<docVars, boardVars, calls, msVars, logVars, config, state,
                   failures, run>>

MainEnd ==
    /\ pc = "main_loop"
    /\ ei > Len(config)
    /\ pc' = "done"
    /\ UNCHANGED <<docVars, boardVars, calls, msVars, logVars, mainVars, failures, run>>

\* parse_markdown applied to a document on its own.
DoParse ==
    /\ pc = "parse_start"
    /\ data' = ParseMarkdown(content)
    /\ pc' = "parsed"
    /\ UNCHANGED <<content, boardVars, calls, msVars, logVars, mainVars, failures, run>>

\* ---------------------------------------------------------- specifications
InitLocals ==
    /\ calls = <<>>
    /\ existing_checklists = <<>>
    /\ mi = 1
    /\ checklist = NoChecklist
    /\ existing_items = <<>>
    /\ ti = 1
    /\ di = 1
    /\ posted_logs = <<>>
    /\ sorted_logs = <<>>
    /\ li = 1
    /\ ei = 1
    /\ state = {}
    /\ nextId = FirstFreeId
    /\ failures = 0
    /\ run = 1

\* main() after the configuration is loaded.
Init ==
    /\ InitLocals
    /\ pc = "main_loop"
    /\ config \in Configs(MaxEntries)
    /\ outcome = [k \in 1..Len(config) |-> "none"]
    /\ content = <<>>
    /\ data = NoData
    /\ checklists = <<>>
    /\ comments = <<>>
    /\ card_data = Snapshot(<<>>, <<>>)

MsNext ==
    \/ MsBegin
    \/ MsFound
    \/ \E ok \in BOOLEAN : MsCreateChecklist(ok)
    \/ \E ok \in BOOLEAN : MsTask(ok)
    \/ MsTasksDone
    \/ \E ok \in BOOLEAN : MsDelete(ok)
    \/ MsDeleteDone
    \/ MsReturn

LogNext ==
    \/ LogBegin
    \/ \E ok \in BOOLEAN : LogStep(ok)
    \/ LogReturn

Next ==
    \/ MainSkipInvalid
    \/ \E ok \in BOOLEAN : MainFetchDoc(ok)
    \/ \E ok \in BOOLEAN : MainFetchCard(ok)
    \/ MsNext
    \/ LogNext
    \/ MainNext
    \/ MainEnd

Spec == Init /\ [][Next]_vars

\* sync_milestones called on a parsed document and a fetched card.
InitMilestones ==
    /\ InitLocals
    /\ pc = "ms_start"
    /\ config = <<Entry(1, "ok")>>
    /\ outcome = <<"none">>
    /\ content \in MsDocs(MaxMilestones, MaxTasks)
    /\ data = ParseMarkdown(content)
    /\ checklists \in RemoteChecklists(MaxChecklists, MaxItems)
    /\ comments = <<>>
    /\ card_data = Snapshot(checklists, comments)

SpecMilestones == InitMilestones /\ [][MsNext]_vars

\* sync_daily_log called on a parsed document and a fetched card, then once
\* more on the card as the first pass left it.
InitLogs ==
    /\ InitLocals
    /\ pc = "log_start"
    /\ config = <<Entry(1, "ok")>>
    /\ outcome = <<"none">>
    /\ content \in LogDocs(MaxLogs)
    /\ data = ParseMarkdown(content)
    /\ checklists = <<>>
    /\ comments \in RemoteComments(MaxComments)
    /\ card_data = Snapshot(checklists, comments)

SpecLogs == InitLogs /\ [][LogNext \/ SecondPass]_vars

\* parse_markdown on its own.
InitParse ==
    /\ InitLocals
    /\ pc = "parse_start"
    /\ config = <<>>
    /\ outcome = <<>>
    /\ content \in ParseDocs(MaxLines)
    /\ data = NoData
    /\ checklists = <<>>
    /\ comments = <<>>
    /\ card_data = Snapshot(<<>>, <<>>)

SpecParse == InitParse /\ [][DoParse]_vars

\* ------------------------------------------------------------------ claims
ItemSet(items) == {<<items[k].name, items[k].state>> : k \in 1..Len(items)}
TaskSet(tasks) == {<<tasks[k].name, StateStr(tasks[k].checked)>> : k \in 1..Len(tasks)}
NamesOf(xs) == {xs[k].name : k \in 1..Len(xs)}
CallsOf(ms, op) == {i \in 1..Len(calls) : calls[i].ms = ms /\ calls[i].op = op}
MsFinished == pc = "log_start"

\* C1: when sync_milestones has completed with every request succeeding, the
\* card has, for every parsed milestone, a checklist of that name whose items
\* (name and state) are exactly the parsed tasks, whatever the card held
\* before, items or tasks that share a name included.
C1_StrictMirror ==
    (MsFinished /\ failures = 0) =>
        \A m \in 1..Len(data.milestones) :
            /\ \E k \in 1..Len(checklists) : checklists[k].name = data.milestones[m].key
            /\ \A k \in 1..Len(checklists) :
                   checklists[k].name = data.milestones[m].key =>
                       ItemSet(checklists[k].checkItems) = TaskSet(data.milestones[m].val)

\* C4: for a parsed milestone whose checklist was on the card, the requests
\* issued are exactly the diff: one create per task with no item of its name,
\* one update per task that has an item of its name in another state, one
\* delete per item whose name is no task's name.
C4_ExactDiff ==
    MsFinished =>
        \A m \in 1..Len(data.milestones) :
            LET name == data.milestones[m].key
                tasks == data.milestones[m].val
                items == ResolveChecklist(DictByName(card_data.checklists), name).checkItems
            IN name \in NamesOf(card_data.checklists) =>
                /\ Cardinality(CallsOf(name, "create_item")) =
                       Cardinality({k \in 1..Len(tasks) : tasks[k].name \notin NamesOf(items)})
                /\ Cardinality(CallsOf(name, "update_item")) =
                       Cardinality({k \in 1..Len(tasks) :
                           \E j \in 1..Len(items) :
                               /\ items[j].name = tasks[k].name
                               /\ items[j].state # StateStr(tasks[k].checked)})
                /\ Cardinality(CallsOf(name, "delete_item")) =
                       Cardinality({j \in 1..Len(items) : items[j].name \notin NamesOf(tasks)})
                /\ CallsOf(name, "create_checklist") = {}

\* What a request asks for, apart from how it ended and from ids the board
\* hands out during the run: the operation, the milestone, the task name, the
\* state and, for an update or a delete, the id of the item it is aimed at.
Asked(c) ==
    [op |-> c.op, ms |-> c.ms, name |-> c.name, state |-> c.state,
     id |-> IF c.op \in {"update_item", "delete_item"} THEN c.id ELSE 0]

\* The requests for one milestone's tasks against the items of its checklist.
RECURSIVE TaskPlan(_, _, _)
TaskPlan(ms, tasks, items) ==
    IF tasks = <<>> THEN <<>>
    ELSE LET t == Head(tasks)
             act == TaskAction(items, t)
             one == IF act = "create"
                    THEN <<[op |-> "create_item", ms |-> ms, name |-> t.name,
                            state |-> StateStr(t.checked), id |-> 0]>>
                    ELSE IF act = "update"
                    THEN <<[op |-> "update_item", ms |-> ms, name |-> t.name,
                            state |-> StateStr(t.checked), id |-> Get(items, t.name).id]>>
                    ELSE <<>>
         IN one \o TaskPlan(ms, Tail(tasks), items)

\* The delete requests for one milestone.
RECURSIVE DeletePlan(_, _, _)
DeletePlan(ms, items, names) ==
    IF items = <<>> THEN <<>>
    ELSE (IF DeleteNeeded(Head(items).key, names)
          THEN <<[op |-> "delete_item", ms |-> ms, name |-> Head(items).key,
                  state |-> "", id |-> Head(items).val.id]>>
          ELSE <<>>)
         \o DeletePlan(ms, Tail(items), names)

\* The requests of a whole run in which no item request fails, given the
\* milestones whose checklist could not be created.
RECURSIVE Plan(_, _, _, _)
Plan(milestones, i, existing, notCreated) ==
    IF i > Len(milestones) THEN <<>>
    ELSE LET name == milestones[i].key
             tasks == milestones[i].val
             cl == ResolveChecklist(existing, name)
             here ==
                 IF cl = NoChecklist
                 THEN <<[op |-> "create_checklist", ms |-> name, name |-> name,
                         state |-> "", id |-> 0]>>
                      \o (IF name \in notCreated THEN <<>>
                          ELSE TaskPlan(name, tasks, <<>>))
                 ELSE TaskPlan(name, tasks, DictByName(cl.checkItems))
                      \o DeletePlan(name, DictByName(cl.checkItems),
                                    GithubTaskNames(milestones, name))
         IN here \o Plan(milestones, i + 1, existing, notCreated)

NotCreated ==
    {calls[i].ms : i \in {j \in 1..Len(calls) :
                              calls[j].op = "create_checklist" /\ ~calls[j].ok}}

\* C7: a failed item request changes nothing in what is asked afterwards: the
\* requests of a finished run are those of the run in which every item request
\* succeeds; a milestone whose checklist could not be created gets no item
\* request, and the milestones after it get theirs.
C7_FailureIsolated ==
    MsFinished =>
        [k \in 1..Len(calls) |-> Asked(calls[k])] =
            Plan(data.milestones, 1, DictByName(card_data.checklists), NotCreated)

\* C7 witness: a finished run in which an item request failed and a later
\* request for the same milestone was issued all the same.
C7_Witness ==
    /\ MsFinished
    /\ \E i, j \in 1..Len(calls) :
          /\ i < j
          /\ ~calls[i].ok
          /\ calls[i].op \in {"create_item", "update_item"}
          /\ calls[j].ms = calls[i].ms

\* C9: a checklist of the card whose name is no parsed milestone's name stays
\* on the card as it was fetched, and no request is aimed at it or at an item
\* of it.
C9_ForeignChecklistUntouched ==
    \A k \in 1..Len(card_data.checklists) :
        LET cl == card_data.checklists[k] IN
        cl.name \notin Keys(data.milestones) =>
            /\ \E j \in 1..Len(checklists) : checklists[j] = cl
            /\ \A i \in 1..Len(calls) :
                   /\ calls[i].cl # cl.id
                   /\ \A n \in 1..Len(cl.checkItems) : calls[i].id # cl.checkItems[n].id

\* C9 witness: a finished run that issued requests while the card held a
\* checklist, with items, that no parsed milestone names.
C9_Witness ==
    /\ MsFinished
    /\ calls # <<>>
    /\ \E k \in 1..Len(card_data.checklists) :
          /\ card_data.checklists[k].name \notin Keys(data.milestones)
          /\ card_data.checklists[k].checkItems # <<>>

LogFinished == pc = "log_done"
\* The date sync_daily_log extracts from a comment.
ExtractedDate(c) == SearchDate(Strip(c.text))
Dated(cms, d) == {k \in 1..Len(cms) : ExtractedDate(cms[k]) = d}
\* The comment's body begins with a dated heading.
LeadingDate(c) == DateMatch(Strip(c.text))
CommentCalls(r, op) == {i \in 1..Len(calls) : calls[i].run = r /\ calls[i].op = op}

\* C2, as claimed: when sync_daily_log has completed with every request
\* succeeding, each parsed date has exactly one comment with that date, whose
\* text is the parsed text, whatever the comment history was.
C2_ExactlyOneComment ==
    (LogFinished /\ failures = 0) =>
        \A d \in Keys(data.daily_logs) :
            /\ Cardinality(Dated(comments, d)) = 1
            /\ \A k \in Dated(comments, d) : comments[k].text = Get(data.daily_logs, d)

\* C2, amended: when sync_daily_log has completed with every request
\* succeeding, each parsed date that at most one fetched comment carried has
\* exactly one comment with that date, and that comment's text, trimmed, is
\* the parsed text, trimmed.
C2_OneCommentWhenHistoryHasAtMostOne ==
    (LogFinished /\ failures = 0) =>
        \A d \in Keys(data.daily_logs) :
            Cardinality(Dated(card_data.actions, d)) <= 1 =>
                /\ Cardinality(Dated(comments, d)) = 1
                /\ \A k \in Dated(comments, d) :
                       Strip(comments[k].text) = Strip(Get(data.daily_logs, d))

\* C2 witness: a first pass that completed without a failure after creating
\* one comment and rewriting another.
C2_Witness ==
    /\ LogFinished
    /\ failures = 0
    /\ CommentCalls(1, "create_comment") # {}
    /\ CommentCalls(1, "update_comment") # {}
    /\ \A d \in Keys(data.daily_logs) : Cardinality(Dated(card_data.actions, d)) <= 1

\* C3: a second pass over unchanged logs, made on the card as a first pass
\* without failures left it, issues no create and no update request.
C3_SecondPassSilent ==
    (\A i \in 1..Len(calls) : calls[i].run = 1 => calls[i].ok) =>
        \A i \in 1..Len(calls) : calls[i].run # 2

\* C3 witness: the second pass has completed after a first pass that both
\* created and rewrote a comment, every request succeeding.
C3_Witness ==
    /\ LogFinished
    /\ run = 2
    /\ failures = 0
    /\ CommentCalls(1, "create_comment") # {}
    /\ CommentCalls(1, "update_comment") # {}

\* C5: no fetched comment disappears, and a fetched comment whose body does
\* not begin with a dated heading, or begins with one whose date is no parsed
\* date, is still on the card with the text it had.
C5_OnlyLeadingDatedTouched ==
    \A k \in 1..Len(card_data.actions) :
        LET c == card_data.actions[k] IN
        /\ \E j \in 1..Len(comments) : comments[j].id = c.id
        /\ (~LeadingDate(c) \/ Head(Strip(c.text))[2] \notin Keys(data.daily_logs)) =>
               \E j \in 1..Len(comments) : comments[j] = c

\* C8: of two comment creations of one pass, the earlier is for the earlier
\* date.
C8_CreatesAscending ==
    \A i, j \in 1..Len(calls) :
        (/\ i < j
         /\ calls[i].run = calls[j].run
         /\ calls[i].op = "create_comment"
         /\ calls[j].op = "create_comment") =>
            DateRank[calls[i].name] < DateRank[calls[j].name]

\* C8 witness: two comments were created in a pass over a document that
\* gives the later date first.
C8_Witness ==
    /\ Cardinality(CommentCalls(1, "create_comment")) >= 2
    /\ Len(data.daily_logs) >= 2
    /\ DateRank[data.daily_logs[1].key] > DateRank[data.daily_logs[2].key]

FetchFailed(e) == outcome[e] \in {"doc_failed", "card_failed"}

\* C6: an entry whose document or card could not be fetched gets no write
\* request, and the batch goes on: when main ends, every valid entry has been
\* fetched, and reconciled unless its own fetch failed.
C6_FetchFailureSkipsOnlyThatEntry ==
    /\ \A e \in 1..Len(config) :
           FetchFailed(e) => \A i \in 1..Len(calls) : calls[i].e # e
    /\ pc = "done" =>
           \A e \in 1..Len(config) :
               ValidEntry(config[e]) => (FetchFailed(e) \/ outcome[e] = "synced")

\* C6 witness: main has ended; the first entry's fetch failed and the second
\* entry was reconciled with write requests.
C6_Witness ==
    /\ pc = "done"
    /\ Len(config) >= 2
    /\ FetchFailed(1)
    /\ outcome[2] = "synced"
    /\ \E i \in 1..Len(calls) : calls[i].e = 2

DocLines == SplitOn(content, <<NL>>)
\* The lines of the document that are the heading of date d.
HeadingLines(d) ==
    {k \in 1..Len(DocLines) :
        DateMatch(Strip(DocLines[k])) /\ Head(Strip(DocLines[k]))[2] = d}
\* The places of the document where the text of d's heading stands.
Occurrences(d) == {i \in 1..Len(content) : content[i] = H3(d)}
\* The canonical heading, then the text from the line after line k to the
\* next "---".
BoundedBlock(d, k) ==
    <<H3(d), NL>>
    \o Strip(SplitOn(JoinLines(SubSeq(DocLines, k + 1, Len(DocLines))), <<HR>>)[1])

\* C10: when the text of a date's one heading line also stands elsewhere in
\* the document, the log stored for the date is the canonical heading and the
\* text between that heading line and the next "---".
C10_BlockOfTheHeadingLine ==
    pc = "parsed" =>
        \A d \in Dates :
            \A k \in HeadingLines(d) :
                (HeadingLines(d) = {k} /\ Cardinality(Occurrences(d)) >= 2) =>
                    /\ HasKey(data.daily_logs, d)
                    /\ Get(data.daily_logs, d) = BoundedBlock(d, k)

====
